---- MODULE Spec2Model ----
(***************************************************************************)
(* access-log-gen (src/src/main.rs): the seeded access-log generator.      *)
(*                                                                         *)
(* Generator::next builds one RecordBatch per host: for each service a     *)
(* coin flip, then BatchBuilder::append (sorted pods, 1-2 containers per   *)
(* pod, rows with time = i * 1024), then BatchBuilder::finish.  main       *)
(* collects 40 batches and writes them three times with write_parquet.     *)
(*                                                                         *)
(* StdRng is an external, deterministic generator.  Its state is modelled  *)
(* as [seed, pos]: the seed it was built from and the number of draws      *)
(* taken.  The value of a draw is a function of (seed, pos) that the model *)
(* does not compute: a draw that decides control flow (a count, a coin, a  *)
(* pod string) ranges over every value of its (bounded) range, and a draw  *)
(* that is only stored is kept as the position(s) it was taken at.         *)
(***************************************************************************)
EXTENDS Integers, Sequences, FiniteSets, TLC

VARIABLES gen, overflow_checks, main

vars == <<gen, overflow_checks, main>>

(***************************************************************************)
(* Bounds of the model (the code's ranges are in the comments).            *)
(***************************************************************************)
\* next() calls the caller draws from one Generator (main: take(40))
MaxHosts == 2
\* services of the list at main.rs:200 that the model loops over (code: 4)
NumServices == 2
\* num_pods is drawn from 1..MaxPods (code: gen_range(1..15), 1..14)
MaxPods == 2
\* num_entries is MaxEntries, the one count drawn (code: 1024..8191)
MaxEntries == 3
\* append_row calls a direct caller of BatchBuilder makes (SpecRow)
MaxRows == 2

(***************************************************************************)
(* Program constants.                                                      *)
(***************************************************************************)
\* main.rs:75  let time = i as i64 * 1024
TimeStep == 1024
\* main.rs:227  generator.take(40)
NumBatches == 40
\* main.rs:196  usize on the (64-bit) target: 16 hex digits
WordDigits == 16

\* main.rs:175-178  the fixed seed
SEED ==
  << 1, 0, 0, 0, 23, 0, 3, 0, 200, 1, 0, 0, 210, 30, 8, 0,
     1, 0, 21, 0, 6, 0, 0, 0, 0, 0, 5, 0, 0, 0, 0, 0 >>

\* main.rs:200  the service list; the model loops over its first NumServices
AllServices == << "frontend", "backend", "database", "cache" >>

Services == SubSeq(AllServices, 1, NumServices)

\* main.rs:92, 93
methods == << "GET", "PUT", "POST", "HEAD", "PATCH", "DELETE" >>

status == << 200, 204, 400, 503, 403 >>

\* main.rs:69  the digest suffix of an image name
Digest == "@sha256:30375999bf03beec2187843017b10c9e88d8b1a91615df4eb6350fb39472edd9"

\* main.rs:196  0x7d87f8ed5c5 and 0x1ec3ca3151468928 as hex digits, least
\* significant first (the numbers exceed the model checker's integers)
HostMul == << 5, 12, 5, 13, 14, 8, 15, 7, 8, 13, 7, 0, 0, 0, 0, 0 >>

HostAdd == << 8, 2, 9, 8, 6, 4, 1, 5, 1, 3, 10, 12, 3, 12, 14, 1 >>

(***************************************************************************)
(* Ranges of the draws that decide control flow.                           *)
(***************************************************************************)
\* main.rs:63  gen_range(1..15)
PodCounts == 1 .. MaxPods

\* main.rs:66  gen_range(1..3)
ContainerCounts == 1 .. 2

\* main.rs:73  gen_range(1024..8192)
EntryCounts == {MaxEntries}

\* main.rs:64  pod strings have a length in 30..40 (here 1..2) ...
PodLens == {1}

\* main.rs:152 ... of bytes in b'a'..b'z' (here the first two)
PodChars == {97, 98}

\* main.rs:111  the user agent has a length in 20..100 (here 1..2)
UaLens == {1, 2}

(***************************************************************************)
(* Strings that are compared are sequences of byte values.                 *)
(***************************************************************************)
Option_None == << >>

Option_Some(v) == << v >>

\* str::cmp: bytewise lexicographic order, a proper prefix first
RECURSIVE StrLess(_, _)
StrLess(a, b) ==
  IF b = << >> THEN FALSE
  ELSE IF a = << >> THEN TRUE
  ELSE IF Head(a) # Head(b) THEN Head(a) < Head(b)
  ELSE StrLess(Tail(a), Tail(b))

StrLeq(a, b) == a = b \/ StrLess(a, b)

\* one step of the sort: s placed before the first larger element
RECURSIVE Insert(_, _)
Insert(s, sorted) ==
  IF sorted = << >> THEN << s >>
  ELSE IF StrLeq(s, Head(sorted)) THEN << s >> \o sorted
  ELSE << Head(sorted) >> \o Insert(s, Tail(sorted))

\* sort_unstable with the sort left out
sort_unstable_omitted(strings) == strings

\* main.rs:161  strings.sort_unstable()
RECURSIVE sort_unstable(_)
sort_unstable(strings) ==
  IF strings = << >> THEN << >>
  ELSE Insert(Head(strings), sort_unstable(Tail(strings)))

(***************************************************************************)
(* StdRng.                                                                 *)
(***************************************************************************)
\* main.rs:183  StdRng::from_seed(seed)
from_seed(seed) == [seed |-> seed, pos |-> 0]

\* n draws taken
Advance(rng, n) == [rng EXCEPT !.pos = rng.pos + n]

\* the value made of the n draws that follow rng's position, in order
Drawn(rng, n) == [first |-> rng.pos + 1, n |-> n]

(***************************************************************************)
(* The host identifier.                                                    *)
(***************************************************************************)
\* digit k (1 = least significant) and the carry out of it of
\* host_idx * 0x7d87f8ed5c5 + 0x1ec3ca3151468928
RECURSIVE HostCarry(_, _)
HostCarry(host_idx, k) ==
  IF k = 0 THEN 0
  ELSE (HostMul[k] * host_idx + HostAdd[k] + HostCarry(host_idx, k - 1)) \div 16

HostDigit(host_idx, k) ==
  (HostMul[k] * host_idx + HostAdd[k] + HostCarry(host_idx, k - 1)) % 16

\* the sum does not fit the word: a build with overflow checks panics, one
\* without wraps
HostOverflows(host_idx) == HostCarry(host_idx, WordDigits) > 0

\* {:x} of one digit: '0'..'9', 'a'..'f'
HexChar(d) == IF d < 10 THEN 48 + d ELSE 87 + d

\* main.rs:194-197  format!("i-{:016x}.ec2.internal", ...), the word's low
\* 64 bits, most significant digit first
HostName(host_idx) ==
  << 105, 45 >>
  \o [k \in 1 .. WordDigits |-> HexChar(HostDigit(host_idx, WordDigits + 1 - k))]
  \o << 46, 101, 99, 50, 46, 105, 110, 116, 101, 114, 110, 97, 108 >>

(***************************************************************************)
(* BatchBuilder.  A column is the sequence of its entries; an entry is     *)
(* Option_Some(value) or Option_None (a null).                             *)
(***************************************************************************)
\* main.rs:17-33  the builders, in the order finish hands them over
Columns ==
  << "service", "host", "pod", "container", "image", "time", "client_addr",
     "request_duration", "request_user_agent", "request_method",
     "request_host", "request_bytes", "response_bytes", "response_status" >>

\* main.rs:19-32  the Arrow type each builder produces
BuilderType ==
  [ service |-> "Utf8", host |-> "Utf8", pod |-> "Utf8", container |-> "Utf8",
    image |-> "Utf8", time |-> "TimestampMicrosecond", client_addr |-> "Utf8",
    request_duration |-> "Int32", request_user_agent |-> "Utf8",
    request_method |-> "Utf8", request_host |-> "Utf8",
    request_bytes |-> "Int32", response_bytes |-> "Int32",
    response_status |-> "UInt16" ]

\* main.rs:36-60  BatchBuilder::schema
schema ==
  << [name |-> "service", type |-> "Utf8", nullable |-> TRUE],
     [name |-> "host", type |-> "Utf8", nullable |-> FALSE],
     [name |-> "pod", type |-> "Utf8", nullable |-> FALSE],
     [name |-> "container", type |-> "Utf8", nullable |-> FALSE],
     [name |-> "image", type |-> "Utf8", nullable |-> FALSE],
     [name |-> "time", type |-> "TimestampMicrosecond", nullable |-> FALSE],
     [name |-> "client_addr", type |-> "Utf8", nullable |-> TRUE],
     [name |-> "request_duration_ns", type |-> "Int32", nullable |-> FALSE],
     [name |-> "request_user_agent", type |-> "Utf8", nullable |-> TRUE],
     [name |-> "request_method", type |-> "Utf8", nullable |-> TRUE],
     [name |-> "request_host", type |-> "Utf8", nullable |-> TRUE],
     [name |-> "request_bytes", type |-> "Int32", nullable |-> TRUE],
     [name |-> "response_bytes", type |-> "Int32", nullable |-> TRUE],
     [name |-> "response_status", type |-> "UInt16", nullable |-> FALSE] >>

\* main.rs:17  #[derive(Default)]: every builder empty
BatchBuilder_default == [c \in {Columns[k] : k \in 1 .. Len(Columns)} |-> << >>]

\* append_value that stores a time of zero as a null
append_value_zero_null(b, col, v) ==
  [b EXCEPT ![col] = Append(@, IF col = "time" /\ v = 0 THEN Option_None
                               ELSE Option_Some(v))]

\* append_option that appends nothing for a None
append_option_skip_none(b, col, o) ==
  IF o = Option_None THEN b ELSE [b EXCEPT ![col] = Append(@, o)]

\* builder.append_value(v), builder.append_option(o)
append_value(b, col, v) == [b EXCEPT ![col] = Append(@, Option_Some(v))]

append_option(b, col, o) == [b EXCEPT ![col] = Append(@, o)]

\* gen_option with the value drawn first, whether present or not
gen_option_eager(rng, present) ==
  [value |-> IF present THEN Option_Some(Drawn(rng, 1)) ELSE Option_None,
   rng |-> Advance(rng, 2)]

\* main.rs:118, 120  rng.gen_bool(0.9).then(|| rng.gen()): the flag is drawn,
\* and the value only when the flag says present
gen_option(rng, present) ==
  LET flagged == Advance(rng, 1)
  IN IF present
     THEN [value |-> Option_Some(Drawn(flagged, 1)), rng |-> Advance(flagged, 1)]
     ELSE [value |-> Option_None, rng |-> flagged]

\* main.rs:113, 122  table[rng.gen_range(0..table.len())]: the entry of the
\* table that one draw selects
choose(rng, name, table) ==
  [of |-> name, len |-> Len(table), index |-> Drawn(rng, 1)]

\* main.rs:82-123  BatchBuilder::append_row.  d holds the outcomes of the
\* draws that decide what is drawn next: the user agent's length and the two
\* gen_bool(0.9).  Returns the builder and the rng after the row.
append_row(b, rng, host, pod, service, container, image, time, d) ==
  LET b1 == append_value(b, "service", service)
      b2 == append_value(b1, "host", host)
      b3 == append_value(b2, "pod", pod)
      b4 == append_value(b3, "container", container)
      b5 == append_value(b4, "image", image)
      b6 == append_value(b5, "time", time)
      \* four rng.gen::<u8>()
      b7 == append_value(b6, "client_addr", Drawn(rng, 4))
      r7 == Advance(rng, 4)
      \* rng.gen()
      b8 == append_value(b7, "request_duration", Drawn(r7, 1))
      r8 == Advance(r7, 1)
      \* random_string(rng, 20..100): the length, then that many bytes
      rl == Advance(r8, 1)
      b9 == append_value(b8, "request_user_agent",
                         [len |-> d.ua_len, bytes |-> Drawn(rl, d.ua_len)])
      r9 == Advance(rl, d.ua_len)
      \* methods[rng.gen_range(0..methods.len())]
      b10 == append_value(b9, "request_method", choose(r9, "methods", methods))
      r10 == Advance(r9, 1)
      b11 == append_value(b10, "request_host",
                          "https://" \o service \o ".mydomain.com")
      o12 == gen_option(r10, d.request_bytes)
      b12 == append_option(b11, "request_bytes", o12.value)
      o13 == gen_option(o12.rng, d.response_bytes)
      b13 == append_option(b12, "response_bytes", o13.value)
      \* status[rng.gen_range(0..status.len())]
      b14 == append_value(b13, "response_status", choose(o13.rng, "status", status))
      r14 == Advance(o13.rng, 1)
  IN [builder |-> b14, rng |-> r14]

\* RecordBatch::try_new: as many columns as fields, of the fields' types, all
\* of one length, and no null in a column whose field is not nullable
try_new_ok(fields, cols, types) ==
  /\ Len(cols) = Len(fields)
  /\ \A k \in 1 .. Len(cols) :
       /\ types[k] = fields[k].type
       /\ Len(cols[k]) = Len(cols[1])
       /\ fields[k].nullable \/ \A r \in 1 .. Len(cols[k]) : cols[k][r] # Option_None

\* main.rs:125-146  BatchBuilder::finish: Some(batch), or None where
\* try_new(..).unwrap() panics
finish(b, fields) ==
  LET cols == [k \in 1 .. Len(Columns) |-> b[Columns[k]]]
      types == [k \in 1 .. Len(Columns) |-> BuilderType[Columns[k]]]
  IN IF try_new_ok(fields, cols, types)
     THEN Option_Some([schema |-> fields, columns |-> cols,
                       num_rows |-> Len(cols[1])])
     ELSE Option_None

(***************************************************************************)
(* random_string and generate_sorted_strings.  The bytes of a pod string   *)
(* decide the order of the rows, so they are drawn as values.              *)
(***************************************************************************)
\* main.rs:149-154  the strings random_string(rng, 30..40) can return
PodStrings == UNION {[1 .. n -> PodChars] : n \in PodLens}

\* main.rs:149-154  the draws random_string takes to return s: the length,
\* then one per byte
random_string_draws(s) == 1 + Len(s)

RECURSIVE SumDraws(_)
SumDraws(strings) ==
  IF strings = << >> THEN 0
  ELSE random_string_draws(Head(strings)) + SumDraws(Tail(strings))

\* main.rs:156-163  generate_sorted_strings, `drawn` being the strings the
\* count calls of random_string return, in the order drawn
generate_sorted_strings(rng, drawn) ==
  [strings |-> sort_unstable(drawn), rng |-> Advance(rng, SumDraws(drawn))]

(***************************************************************************)
(* Generator.  A generator is its fields (rng, host_idx) and the frame of  *)
(* the next() call in progress: pc, the locals of next and append, and the *)
(* batch the last call returned.                                           *)
(***************************************************************************)
\* Generator::new seeding the rng from the environment's entropy
Generator_new_from_entropy(entropy) ==
  [ rng |-> from_seed([k \in 1 .. 32 |-> entropy]), host_idx |-> 0,
    pc |-> "idle", calls |-> 0, builder |-> Option_None, host |-> << >>,
    service |-> 0, pods |-> << >>, pod |-> 0, containers |-> 0,
    container_idx |-> 0, num_entries |-> 0, i |-> 0, batch |-> Option_None ]

\* main.rs:174-185  Generator::new (its schema field is the immutable
\* `schema` above).  entropy is what the environment would hand a generator
\* that asked for it; new() does not.
Generator_new(entropy) ==
  [ rng |-> from_seed(SEED), host_idx |-> 0,
    pc |-> "idle", calls |-> 0, builder |-> Option_None, host |-> << >>,
    service |-> 0, pods |-> << >>, pod |-> 0, containers |-> 0,
    container_idx |-> 0, num_entries |-> 0, i |-> 0, batch |-> Option_None ]

\* main.rs:192-198  next, up to the service loop.  With overflow checks the
\* host arithmetic panics when it does not fit the word; without, it wraps.
next_begin(g, checks) ==
  IF checks /\ HostOverflows(g.host_idx)
  THEN [g EXCEPT !.pc = "panic", !.calls = @ + 1, !.batch = Option_None]
  ELSE [g EXCEPT !.builder = Option_Some(BatchBuilder_default),
                 !.host = HostName(g.host_idx),
                 !.host_idx = @ + 1,
                 !.service = 1,
                 !.calls = @ + 1,
                 !.batch = Option_None,
                 !.pc = "service"]

\* coin_flip with num_pods drawn before the coin is looked at
coin_flip_after_count(g, skip) ==
  IF skip
  THEN [g EXCEPT !.rng = Advance(@, 2), !.service = @ + 1]
  ELSE [g EXCEPT !.rng = Advance(@, 1), !.pc = "append"]

\* main.rs:201-203  if self.rng.gen_bool(0.5) { continue; }
coin_flip(g, skip) ==
  IF skip
  THEN [g EXCEPT !.rng = Advance(@, 1), !.service = @ + 1]
  ELSE [g EXCEPT !.rng = Advance(@, 1), !.pc = "append"]

\* main.rs:63-64  append: num_pods and the sorted pods (num_pods = Len(drawn))
append_begin(g, drawn) ==
  LET r == generate_sorted_strings(Advance(g.rng, 1), drawn)
  IN [g EXCEPT !.rng = r.rng, !.pods = r.strings, !.pod = 1, !.pc = "pod"]

\* main.rs:65-66  for pod in pods: the container count of the next pod
pod_begin(g, n) ==
  [g EXCEPT !.rng = Advance(@, 1), !.containers = n, !.container_idx = 0,
            !.pc = "container"]

\* main.rs:65, 80, 200  pods exhausted: append returns, next service
append_return(g) ==
  [g EXCEPT !.pods = << >>, !.pod = 0, !.service = @ + 1, !.pc = "service"]

\* main.rs:67-73  the next container: its row count
container_begin(g, n) ==
  [g EXCEPT !.rng = Advance(@, 1), !.num_entries = n, !.i = 0, !.pc = "row"]

\* main.rs:66, 78  containers exhausted: next pod
pod_next(g) ==
  [g EXCEPT !.containers = 0, !.container_idx = 0, !.pod = @ + 1, !.pc = "pod"]

\* main.rs:67  format!("{}_container_{}", service, container_idx)
ContainerName(service, container_idx) ==
  service \o "_container_" \o ToString(container_idx)

\* main.rs:68-71  format!("{}@sha256:...", container)
ImageName(container) == container \o Digest

\* RowTime counting rows from one
RowTime_from_one(i) == (i + 1) * TimeStep

\* main.rs:75  let time = i as i64 * 1024
RowTime(i) == i * TimeStep

\* main.rs:74-77  one pass of the row loop
row(g, d) ==
  LET service == Services[g.service]
      container == ContainerName(service, g.container_idx)
      r == append_row(g.builder[1], g.rng, g.host, g.pods[g.pod], service,
                      container, ImageName(container), RowTime(g.i), d)
  IN [g EXCEPT !.builder = Option_Some(r.builder), !.rng = r.rng, !.i = @ + 1]

\* main.rs:74, 77  rows exhausted: next container
container_next(g) ==
  [g EXCEPT !.num_entries = 0, !.i = 0, !.container_idx = @ + 1,
            !.pc = "container"]

\* main.rs:206  Some(builder.finish(..)): the builder is consumed
next_return(g) ==
  LET batch == finish(g.builder[1], schema)
  IN IF batch = Option_None
     THEN [g EXCEPT !.pc = "panic", !.builder = Option_None]
     ELSE [g EXCEPT !.batch = batch, !.builder = Option_None, !.service = 0,
                    !.pc = "idle"]

(***************************************************************************)
(* The draws a step takes, and the step as a function of them.             *)
(***************************************************************************)
\* main.rs:63-64  what num_pods and the random_string calls can return
PodDraws == UNION {[1 .. n -> PodStrings] : n \in PodCounts}

\* main.rs:111, 118, 120  the outcomes of a row's deciding draws
RowDraws ==
  [ua_len : UaLens, request_bytes : BOOLEAN, response_bytes : BOOLEAN]

\* The rows of a generated batch are too many to draw each freely: inside
\* next() the deciding draws of a row follow one fixed stream, a function of
\* the position the row starts at (one flag in three is a null).  A direct
\* caller of append_row (SpecRow) draws them freely.
StreamRowDraws(rng) ==
  { d \in RowDraws :
      /\ d.ua_len = IF rng.pos % 2 = 0 THEN 1 ELSE 2
      /\ d.request_bytes = (rng.pos % 3 # 0)
      /\ d.response_bytes = (rng.pos % 3 # 1) }

\* where the call is: the loop heads of next (main.rs:200) and append
\* (main.rs:65, 66, 74)
AtCall(g) == g.pc = "idle" /\ g.calls < MaxHosts

AtCoin(g) == g.pc = "service" /\ g.service <= Len(Services)

AtReturn(g) == g.pc = "service" /\ g.service > Len(Services)

AtAppend(g) == g.pc = "append"

AtPod(g) == g.pc = "pod" /\ g.pod <= Len(g.pods)

AtPodsDone(g) == g.pc = "pod" /\ g.pod > Len(g.pods)

AtContainer(g) == g.pc = "container" /\ g.container_idx < g.containers

AtContainersDone(g) == g.pc = "container" /\ g.container_idx >= g.containers

AtRow(g) == g.pc = "row" /\ g.i < g.num_entries

AtRowsDone(g) == g.pc = "row" /\ g.i >= g.num_entries

\* the step g is about to take, the outcomes its draws can have, and the step
Kind(g) ==
  CASE AtCall(g) -> "call"
    [] AtCoin(g) -> "coin"
    [] AtReturn(g) -> "return"
    [] AtAppend(g) -> "append"
    [] AtPod(g) -> "pod"
    [] AtPodsDone(g) -> "pods_done"
    [] AtContainer(g) -> "container"
    [] AtContainersDone(g) -> "containers_done"
    [] AtRow(g) -> "row"
    [] AtRowsDone(g) -> "rows_done"
    [] OTHER -> "stopped"

Draws(g) ==
  CASE AtCoin(g) -> BOOLEAN
    [] AtAppend(g) -> PodDraws
    [] AtPod(g) -> ContainerCounts
    [] AtContainer(g) -> EntryCounts
    [] AtRow(g) -> StreamRowDraws(g.rng)
    [] OTHER -> {0}

Step(g, d, checks) ==
  CASE AtCall(g) -> next_begin(g, checks)
    [] AtCoin(g) -> coin_flip(g, d)
    [] AtReturn(g) -> next_return(g)
    [] AtAppend(g) -> append_begin(g, d)
    [] AtPod(g) -> pod_begin(g, d)
    [] AtPodsDone(g) -> append_return(g)
    [] AtContainer(g) -> container_begin(g, d)
    [] AtContainersDone(g) -> pod_next(g)
    [] AtRow(g) -> row(g, d)
    [] AtRowsDone(g) -> container_next(g)
    [] OTHER -> g

(***************************************************************************)
(* Spec: one Generator (generator 1), stepped MaxHosts times.              *)
(***************************************************************************)
G == gen[1]

Set(g) == gen' = [gen EXCEPT ![1] = g]

Others == UNCHANGED <<overflow_checks, main>>

NextBegin == AtCall(G) /\ Set(next_begin(G, overflow_checks)) /\ Others

CoinFlip == AtCoin(G) /\ (\E skip \in BOOLEAN : Set(coin_flip(G, skip))) /\ Others

AppendBegin ==
  AtAppend(G) /\ (\E drawn \in PodDraws : Set(append_begin(G, drawn))) /\ Others

PodBegin ==
  AtPod(G) /\ (\E n \in ContainerCounts : Set(pod_begin(G, n))) /\ Others

AppendReturn == AtPodsDone(G) /\ Set(append_return(G)) /\ Others

ContainerBegin ==
  AtContainer(G) /\ (\E n \in EntryCounts : Set(container_begin(G, n))) /\ Others

PodNext == AtContainersDone(G) /\ Set(pod_next(G)) /\ Others

Row == AtRow(G) /\ (\E d \in StreamRowDraws(G.rng) : Set(row(G, d))) /\ Others

ContainerNext == AtRowsDone(G) /\ Set(container_next(G)) /\ Others

NextReturn == AtReturn(G) /\ Set(next_return(G)) /\ Others

\* what the environment could hand out as entropy
Entropy == {0, 1}

\* main() before its first step (main.rs:224)
Main_init ==
  [pc |-> "collect", file |-> 1, batch |-> 0, printed |-> << >>,
   files |-> [f \in 1 .. 3 |-> [exists |-> FALSE, written |-> 0, closed |-> FALSE]]]

Init ==
  /\ \E e \in [1 .. 2 -> Entropy] : gen = [k \in 1 .. 2 |-> Generator_new(e[k])]
  /\ overflow_checks \in BOOLEAN
  /\ main = Main_init

Next ==
  \/ NextBegin \/ CoinFlip \/ AppendBegin \/ PodBegin \/ AppendReturn
  \/ ContainerBegin \/ PodNext \/ Row \/ ContainerNext \/ NextReturn

Spec == Init /\ [][Next]_vars

(***************************************************************************)
(* SpecDet: two Generators built independently, run side by side.  A draw  *)
(* is a function of the rng's state: two generators whose rngs are in the  *)
(* same state and that ask for the same draws get the same outcomes.       *)
(***************************************************************************)
Running(g) == Kind(g) # "stopped"

LockStep ==
  /\ Running(gen[1]) \/ Running(gen[2])
  /\ \E d1 \in Draws(gen[1]), d2 \in Draws(gen[2]) :
       /\ (gen[1].rng = gen[2].rng /\ Kind(gen[1]) = Kind(gen[2])) => d1 = d2
       /\ gen' = << Step(gen[1], d1, overflow_checks),
                    Step(gen[2], d2, overflow_checks) >>
  /\ Others

SpecDet == Init /\ [][LockStep]_vars

(***************************************************************************)
(* SpecHost: a Generator that has been stepped host_idx times, every       *)
(* service skipped each time, for host indices around the first one whose  *)
(* host arithmetic does not fit the word.                                  *)
(***************************************************************************)
\* the first host_idx with host_idx * 0x7d87f8ed5c5 + 0x1ec3ca3151468928 >= 2^64
FirstOverflow == 1881416

HostIndices == {0, FirstOverflow - 1}

\* the generator after k calls of next() that skipped every service
AfterSkipped(k) ==
  IF k = 0 THEN Generator_new(0)
  ELSE [Generator_new(0) EXCEPT
          !.host_idx = k,
          !.rng = Advance(@, k * Len(Services)),
          !.host = HostName(k - 1),
          !.batch = finish(BatchBuilder_default, schema)]

InitHost ==
  /\ \E k \in HostIndices : gen = [j \in 1 .. 2 |-> AfterSkipped(k)]
  /\ overflow_checks \in BOOLEAN
  /\ main = Main_init

SpecHost == InitHost /\ [][Next]_vars

(***************************************************************************)
(* SpecRow: a caller that holds a BatchBuilder and an rng and calls        *)
(* append_row up to MaxRows times, every deciding draw free, then finish.  *)
(* The caller counts its calls in i.                                       *)
(***************************************************************************)
Caller_init ==
  [Generator_new(0) EXCEPT !.pc = "caller",
                           !.builder = Option_Some(BatchBuilder_default)]

call_append_row(g, service, pod, d) ==
  LET container == ContainerName(service, 0)
      r == append_row(g.builder[1], g.rng, HostName(0), pod, service,
                      container, ImageName(container), RowTime(g.i), d)
  IN [g EXCEPT !.builder = Option_Some(r.builder), !.rng = r.rng, !.i = @ + 1]

call_finish(g) ==
  LET batch == finish(g.builder[1], schema)
  IN IF batch = Option_None
     THEN [g EXCEPT !.pc = "panic", !.builder = Option_None]
     ELSE [g EXCEPT !.batch = batch, !.builder = Option_None, !.pc = "finished"]

CallAppendRow ==
  /\ G.pc = "caller" /\ G.i < MaxRows
  /\ \E k \in 1 .. Len(Services), pod \in PodStrings, d \in RowDraws :
       Set(call_append_row(G, Services[k], pod, d))
  /\ Others

CallFinish == G.pc = "caller" /\ Set(call_finish(G)) /\ Others

InitRow ==
  /\ gen = [k \in 1 .. 2 |-> Caller_init]
  /\ overflow_checks \in BOOLEAN
  /\ main = Main_init

NextRow == CallAppendRow \/ CallFinish

SpecRow == InitRow /\ [][NextRow]_vars

(***************************************************************************)
(* SpecMain: main and write_parquet.  The batches are the NumBatches that  *)
(* main collected; every fallible call may fail, and unwrap() then panics. *)
(***************************************************************************)
\* main.rs:230, 241, 252
FileNames ==
  << "logs-no-stats.parquet", "logs-chunk-stats.parquet", "logs-page-stats.parquet" >>

Panic(m) == [m EXCEPT !.pc = "panic"]

\* main.rs:225-227  the generator is built and 40 batches are collected
main_collect(m) == [m EXCEPT !.pc = "create"]

\* main.rs:216  File::create(name).unwrap()
main_create(m, ok) ==
  IF ok
  THEN [m EXCEPT !.files[m.file] = [exists |-> TRUE, written |-> 0, closed |-> FALSE],
                 !.pc = "try_new"]
  ELSE Panic(m)

\* main.rs:217  ArrowWriter::try_new(..).unwrap()
main_try_new(m, ok) ==
  IF ok THEN [m EXCEPT !.batch = 0, !.pc = "write"] ELSE Panic(m)

\* main_write with a failed write ignored
main_write_ignore_error(m, ok) ==
  IF m.batch >= NumBatches THEN [m EXCEPT !.pc = "close"]
  ELSE IF ok
  THEN [m EXCEPT !.files[m.file].written = @ + 1, !.batch = @ + 1]
  ELSE [m EXCEPT !.batch = @ + 1]

\* main.rs:218-220  writer.write(&batch).unwrap(), or the loop's end
main_write(m, ok) ==
  IF m.batch >= NumBatches THEN [m EXCEPT !.pc = "close"]
  ELSE IF ok
  THEN [m EXCEPT !.files[m.file].written = @ + 1, !.batch = @ + 1]
  ELSE Panic(m)

\* main.rs:221  writer.close().unwrap()
main_close(m, ok) ==
  IF ok THEN [m EXCEPT !.files[m.file].closed = TRUE, !.pc = "print"] ELSE Panic(m)

\* main.rs:238, 249, 260  println!("Write ..."), then the next file or the end
main_print(m) ==
  [m EXCEPT !.printed = Append(@, "Write " \o FileNames[m.file]),
            !.file = @ + 1,
            !.pc = IF m.file = Len(FileNames) THEN "done" ELSE "create"]

MainOthers == UNCHANGED <<gen, overflow_checks>>

MainCollect == main.pc = "collect" /\ main' = main_collect(main) /\ MainOthers

MainCreate ==
  main.pc = "create" /\ (\E ok \in BOOLEAN : main' = main_create(main, ok)) /\ MainOthers

MainTryNew ==
  main.pc = "try_new" /\ (\E ok \in BOOLEAN : main' = main_try_new(main, ok)) /\ MainOthers

MainWrite ==
  main.pc = "write" /\ (\E ok \in BOOLEAN : main' = main_write(main, ok)) /\ MainOthers

MainClose ==
  main.pc = "close" /\ (\E ok \in BOOLEAN : main' = main_close(main, ok)) /\ MainOthers

MainPrint == main.pc = "print" /\ main' = main_print(main) /\ MainOthers

NextMain ==
  \/ MainCollect \/ MainCreate \/ MainTryNew \/ MainWrite \/ MainClose \/ MainPrint

SpecMain == Init /\ [][NextMain]_vars

(***************************************************************************)
(* The claims.                                                             *)
(***************************************************************************)
\* the entries of builder b's column; the columns of a returned batch by name
Col(batch, name) ==
  batch.columns[CHOOSE k \in 1 .. Len(Columns) : Columns[k] = name]

\* rows r, r + 1 of a service carry pods in non-decreasing order
PodOrder(services, pods) ==
  \A r \in 1 .. Len(pods) - 1 :
    services[r] = services[r + 1] => StrLeq(pods[r][1], pods[r + 1][1])

\* C1: within one host step the pods of a service's rows are in
\* lexicographically non-decreasing order, in the builder and in the returned
\* batch; the pod set of the service is sorted, it exists in full before the
\* service's first row is appended, and the rows go through it in order.
C1_PodsSorted ==
  /\ \A k \in 1 .. Len(G.pods) - 1 : StrLeq(G.pods[k], G.pods[k + 1])
  /\ G.builder # Option_None =>
       /\ PodOrder(G.builder[1].service, G.builder[1].pod)
       /\ \A r \in 1 .. Len(G.builder[1].pod) :
            ( /\ G.service \in 1 .. Len(Services)
              /\ G.builder[1].service[r] = Option_Some(Services[G.service]) ) =>
              /\ G.pc \in {"pod", "container", "row"}
              /\ \E k \in 1 .. G.pod :
                   k <= Len(G.pods) /\ G.builder[1].pod[r] = Option_Some(G.pods[k])
  /\ G.batch # Option_None =>
       PodOrder(Col(G.batch[1], "service"), Col(G.batch[1], "pod"))

\* a returned batch in which a service has rows of two different pods
C1_Witness ==
  /\ G.batch # Option_None
  /\ \E r \in 1 .. G.batch[1].num_rows - 1 :
       /\ Col(G.batch[1], "service")[r] = Col(G.batch[1], "service")[r + 1]
       /\ Col(G.batch[1], "pod")[r] # Col(G.batch[1], "pod")[r + 1]

\* C2: the i rows that the pass of the row loop in progress has appended have
\* the times 0, 1024, 2048, ...: the first is 0 and each next one is exactly
\* 1024 more, in every container anew.
C2_ContainerTimes ==
  G.pc = "row" =>
    LET time == G.builder[1].time
        base == Len(time) - G.i
    IN /\ base >= 0
       /\ \A k \in 1 .. G.i :
            time[base + k] =
              Option_Some(IF k = 1 THEN 0 ELSE time[base + k - 1][1] + 1024)

\* the second container of a pod has appended three rows after the first's
C2_Witness ==
  /\ G.pc = "row" /\ G.container_idx = 1 /\ G.i = 3
  /\ Len(G.builder[1].time) >= 6
  /\ G.builder[1].time[Len(G.builder[1].time)] = Option_Some(2048)

\* C3: two generators built independently and stepped side by side agree at
\* every step on the number of batches returned, the batch returned and the
\* state of the rng; no step changes a generator's seed or moves its stream
\* back.
C3_Deterministic ==
  [][ /\ gen'[1].calls = gen'[2].calls
      /\ gen'[1].batch = gen'[2].batch
      /\ gen'[1].rng = gen'[2].rng
      /\ \A k \in 1 .. 2 :
           /\ gen'[k].rng.seed = gen[k].rng.seed
           /\ gen'[k].rng.pos >= gen[k].rng.pos ]_vars

\* both generators have returned their last batch, and it has rows
C3_Witness ==
  \A k \in 1 .. 2 :
    /\ gen[k].calls = MaxHosts /\ gen[k].pc = "idle"
    /\ gen[k].batch # Option_None /\ gen[k].batch[1].num_rows > 0
    /\ gen[k].rng.pos > 0

\* the columns that may hold a null
MayBeAbsent == {"request_bytes", "response_bytes"}

\* C4: no entry of host, pod, container, image, time or response_status is a
\* null, in the builder or in the batch finish returns; nor is one of any
\* other column but request_bytes and response_bytes.
C4_NonNullable ==
  \A k \in 1 .. Len(Columns) :
    Columns[k] \notin MayBeAbsent =>
      /\ G.builder # Option_None =>
           \A r \in 1 .. Len(G.builder[1][Columns[k]]) :
             G.builder[1][Columns[k]][r] # Option_None
      /\ G.batch # Option_None =>
           \A r \in 1 .. Len(G.batch[1].columns[k]) :
             G.batch[1].columns[k][r] # Option_None

\* a returned batch with a null request_bytes and a null response_bytes
C4_Witness ==
  /\ G.pc = "finished" /\ G.batch # Option_None
  /\ \E r \in 1 .. G.batch[1].num_rows :
       Col(G.batch[1], "request_bytes")[r] = Option_None
  /\ \E r \in 1 .. G.batch[1].num_rows :
       Col(G.batch[1], "response_bytes")[r] = Option_None

\* C5: the host string of a step is lexicographically greater than the host
\* string of the step before it, whatever the host index.
C5_HostsIncrease ==
  [][ (G.host # << >> /\ G'.host # G.host) => StrLess(G.host, G'.host) ]_vars

\* C6: a call of next never fails: it starts with a fresh builder and
\* host_idx one greater, and it ends by returning the batch finish makes of
\* that builder (of no rows when every service was skipped); nothing else
\* changes host_idx or consumes the builder.
C6_NextNeverFails ==
  [][ /\ AtCall(G) =>
           /\ G'.pc = "service"
           /\ G'.host_idx = G.host_idx + 1
           /\ G'.builder = Option_Some(BatchBuilder_default)
      /\ AtReturn(G) =>
           /\ G'.pc = "idle"
           /\ G'.batch # Option_None
           /\ G'.batch[1].num_rows = Len(G.builder[1].host)
           /\ G'.builder = Option_None
      /\ ~AtCall(G) => G'.host_idx = G.host_idx
      /\ ~AtReturn(G) /\ ~AtCall(G) => G'.builder # Option_None ]_vars

\* C7: the step of the service loop that skips a service takes one draw and
\* moves to the next service, and nothing else of the generator changes (no
\* row, no pod, no host_idx); the step that includes it takes the same one
\* draw before any pod exists.
C7_SkipTakesOneDraw ==
  [][ AtCoin(G) =>
        \/ G' = [G EXCEPT !.rng = [seed |-> G.rng.seed, pos |-> G.rng.pos + 1],
                          !.service = G.service + 1]
        \/ /\ G' = [G EXCEPT !.rng = [seed |-> G.rng.seed, pos |-> G.rng.pos + 1],
                             !.pc = "append"]
           /\ G'.pods = << >> ]_vars

\* the second service was skipped after the first had appended its rows
C7_Witness ==
  /\ AtReturn(G) /\ G.builder # Option_None
  /\ Len(G.builder[1].service) > 0
  /\ \A r \in 1 .. Len(G.builder[1].service) :
       G.builder[1].service[r] = Option_Some(Services[1])

\* the position of the rng when row r of builder b began (the caller's rng
\* starts at 0 and only append_row draws from it)
RowStart(b, r) ==
  IF r = 1 THEN 0 ELSE b.response_status[r - 1][1].index.first

One(p) == [first |-> p, n |-> 1]

\* C8: the draws of a row, counted from the position p the row starts at:
\* p+1..p+4 the address bytes, p+5 the duration, p+6 the user agent's length
\* and then its bytes up to q, q+1 the method, q+2 the request_bytes flag and
\* its value right after it when present, then the response_bytes flag and
\* its value right after it when present, then the status, the row's last.
C8_DrawOrder ==
  G.builder # Option_None =>
    LET b == G.builder[1]
        n == Len(b.response_status)
    IN /\ G.rng.pos = RowStart(b, n + 1)
       /\ \A r \in 1 .. n :
            LET p == RowStart(b, r)
                ua == b.request_user_agent[r][1]
                q == p + 6 + ua.len
                R == IF b.request_bytes[r] # Option_None THEN 1 ELSE 0
                S == IF b.response_bytes[r] # Option_None THEN 1 ELSE 0
            IN /\ b.client_addr[r] = Option_Some([first |-> p + 1, n |-> 4])
               /\ b.request_duration[r] = Option_Some(One(p + 5))
               /\ ua.bytes = [first |-> p + 7, n |-> ua.len]
               /\ b.request_method[r][1].index = One(q + 1)
               /\ R = 1 => b.request_bytes[r] = Option_Some(One(q + 3))
               /\ S = 1 => b.response_bytes[r] = Option_Some(One(q + 4 + R))
               /\ b.response_status[r][1].index = One(q + 4 + R + S)

\* two rows: one with request_bytes absent and response_bytes present, one
\* the other way round
C8_Witness ==
  /\ G.builder # Option_None
  /\ \E r1, r2 \in 1 .. Len(G.builder[1].request_bytes) :
       /\ G.builder[1].request_bytes[r1] = Option_None
       /\ G.builder[1].response_bytes[r1] # Option_None
       /\ G.builder[1].request_bytes[r2] # Option_None
       /\ G.builder[1].response_bytes[r2] = Option_None

\* C9: after i calls of append_row every one of the 14 builders holds i
\* entries, and finish returns a batch of 14 columns of i entries each.
C9_ColumnLengths ==
  /\ G.pc # "panic"
  /\ G.builder # Option_None =>
       \A k \in 1 .. Len(Columns) : Len(G.builder[1][Columns[k]]) = G.i
  /\ G.pc = "finished" =>
       /\ G.batch # Option_None
       /\ Len(G.batch[1].columns) = 14
       /\ G.batch[1].num_rows = G.i
       /\ \A k \in 1 .. 14 : Len(G.batch[1].columns[k]) = G.i

\* a batch finished after MaxRows rows, one of them with a null
C9_Witness ==
  /\ G.pc = "finished" /\ G.i = MaxRows /\ G.batch # Option_None
  /\ \E r \in 1 .. G.batch[1].num_rows :
       Col(G.batch[1], "response_bytes")[r] = Option_None

\* what holds of main at every moment: the lines printed are those of the
\* files before the current one, each of which exists, holds all batches and
\* is closed; no file after the current one exists
MainOk(m) ==
  /\ m.printed = [f \in 1 .. m.file - 1 |-> "Write " \o FileNames[f]]
  /\ \A f \in 1 .. Len(FileNames) :
       /\ f < m.file =>
            m.files[f] = [exists |-> TRUE, written |-> NumBatches, closed |-> TRUE]
       /\ f > m.file => ~m.files[f].exists

\* C10: a failed create, try_new, write or close ends the run there: after
\* it nothing changes any more (no further batch, file, line or retry), the
\* file's line is not printed, no later file exists, and no file that exists
\* is removed or emptied; a line is printed only for a file that holds all
\* batches and is closed.
C10_FailureAborts ==
  [][ /\ MainOk(main')
      /\ main.pc = "panic" => main' = main
      /\ main'.pc = "panic" =>
           /\ main'.printed = main.printed
           /\ main'.files = main.files
      /\ \A f \in 1 .. Len(FileNames) :
           main.files[f].exists =>
             /\ main'.files[f].exists
             /\ main'.files[f].written >= main.files[f].written \/ f = main.file ]_vars

\* the second file's write failed part-way, after the first was confirmed
C10_Witness ==
  /\ main.pc = "panic" /\ main.file = 2
  /\ main.files[2].exists /\ main.files[2].written > 0 /\ ~main.files[2].closed
  /\ Len(main.printed) = 1

====
